---- MODULE Spec2Model ----
(***************************************************************************)
(* Per-call media pipeline of backend/websocket_handler.py                 *)
(* (TelerWebSocketHandler) together with the receive loop of               *)
(* backend/fastapi_app.py (handle_media_stream) and the LLM adapter of     *)
(* backend/claude_service.py.                                              *)
(*                                                                         *)
(* Concurrency is asyncio: one receive-loop task per connection (rpc) and  *)
(* at most one live silence-watchdog task per connection (wpc).  A task    *)
(* runs without interruption between two awaits that really suspend, so    *)
(* every action below is one such run.  Awaits that cannot suspend         *)
(* (acquiring the uncontended processing lock, the LLM call, which         *)
(* claude_service performs with a blocking client inside an async def)     *)
(* are inside the action that reaches them.                                *)
(*                                                                         *)
(* vad_processor and the sarvam_service methods the handler calls          *)
(* (speech_to_text, text_to_speech, detect_language_switch_request,        *)
(* detect_language_from_text) are not part of the sources at hand; their   *)
(* results are inputs drawn from small sets.                               *)
(***************************************************************************)
EXTENDS Integers, Sequences, FiniteSets, TLC

\* ---------------------------------------------------------------- bounds
\* inbound frames of a run with one call, and of a run with two calls
MaxFrames == 3
MaxFramesTwo == 2
MaxTicks == 1

\* ------------------------------------------------------ program constants
MaxSilenceWarnings == 2
MinAccumulationMs == 3000
BytesPerMs == 16
InitialChunkCounter == 1

\* connection ids
Sessions == {1, 2}
Languages == {"hi-IN", "en-IN"}
DefaultLanguage == "hi-IN"
None == "None"
Set == "Set"

\* lengths in bytes of the decoded PCM of an inbound chunk: 3 s of aligned
\* samples, and about 1.5 s with an odd number of bytes (not aligned to
\* 16-bit samples)
ChunkLens == {48000, 24001}

TTSResults == {"audio", "none"}
LLMOutcomes == {"ok", "empty", "unavailable", "raise"}

VARIABLES
    chunk_counter,        \* self.chunk_counter (one per handler)
    active_connections,   \* keys of self.active_connections
    call_states,          \* self.call_states
    audio_buffers,        \* self.audio_buffers
    conversation_history, \* self.conversation_history (roles)
    stream_metadata,      \* self.stream_metadata (id of the frame that wrote it)
    silence_timers,       \* keys of self.silence_timers
    rpc,                  \* position of the receive-loop task
    wpc,                  \* position of the live watchdog task
    ticks,                \* wake-ups of the live watchdog since it started
    wlocal,               \* the watchdog's local `warnings`
    turn,                 \* locals of the running turn
    drained,              \* audio_chunks and combined_audio of the last drain
    ws,                   \* state of the WebSocket
    last_sent,            \* the audio frame last put on the wire by send_text
    recent_speech,        \* last_user_speech was written during the current sleep
    frames_left,          \* inbound frames still to arrive
    slots,                \* connections still to be opened
    probe,                \* input and result of a function applied on its own
    inbound,              \* the frame the latest step handled, if it handled one
    call_history,         \* the list call_history of the HTTP application
    http,                 \* the HTTP exchange the latest step handled
    connection_id         \* the connection_id connect() returned to each socket's task

vars == <<chunk_counter, active_connections, call_states, audio_buffers,
          conversation_history, stream_metadata, silence_timers, rpc, wpc,
          ticks, wlocal, turn, drained, ws, last_sent, recent_speech,
          frames_left, slots, probe, inbound, call_history, http,
          connection_id>>

\* ------------------------------------------------------------- helpers
RECURSIVE SumLen(_)
\* sum(len(base64.b64decode(chunk['audio_b64']))) over a list of chunks
SumLen(chunks) ==
    IF chunks = <<>> THEN 0 ELSE Head(chunks).len + SumLen(Tail(chunks))

\* _handle_audio_message without its `if accumulated_duration >= 3000`
AccumulatedEnough_Always(chunks) == TRUE

\* duration_ms = (len(audio_data) / 2) / 8, compared with 3000 without
\* leaving the integers: sum(duration_ms) >= 3000  <=>  sum(len) >= 48000
AccumulatedEnough(chunks) == SumLen(chunks) >= MinAccumulationMs * BytesPerMs

Range(f) == {f[i] : i \in DOMAIN f}

\* _combine_audio_chunks: the decoded chunks concatenated in list order and
\* unpacked as 16-bit samples; when the unpack fails (odd number of bytes)
\* the except branch returns the first chunk alone.
CombineAudioChunks(chunks) ==
    IF chunks = <<>> THEN <<>>
    ELSE IF SumLen(chunks) % 2 = 0 THEN chunks
    ELSE <<chunks[1]>>

\* the call state connect() creates
NewCallState ==
    [status |-> "connected", last_user_speech |-> None,
     waiting_for_user |-> TRUE, greeting_sent |-> FALSE,
     call_ended |-> FALSE, silence_warnings |-> 0,
     is_processing |-> FALSE, current_language |-> DefaultLanguage]

NoFlow == [action |-> "none", ws_url |-> <<>>, chunk_size |-> 0, record |-> FALSE]
NoProbe == [transcript |-> <<>>, host |-> <<>>, meaningful |-> "none", flow |-> NoFlow]
NoInbound == [session |-> 0, type |-> "none"]
NoResponse == [status |-> 0, success |-> "absent", error |-> "absent", flow |-> NoFlow]
NoExchange ==
    [app |-> "none", seq |-> 0, route |-> "none", body |-> <<>>,
     response |-> NoResponse, called |-> FALSE]
NoFrameSent == [kind |-> "none", chunk_id |-> 0]
NoDrain == [audio_chunks |-> <<>>, combined_audio |-> <<>>]
NoTurn == [transcript |-> <<>>, language |-> DefaultLanguage, reply |-> "none"]

\* the next inbound frame's message_id: an opaque label, larger for a later
\* frame
FrameId == MaxFrames - frames_left + 1

\* websocket.send_text of an audio frame: the frame is on the wire iff the
\* socket is still open (a send on a closed socket raises)
Sent(s, kind) ==
    IF ws[s] = "open"
    THEN [kind |-> kind, chunk_id |-> chunk_counter]
    ELSE last_sent[s]

\* the statement `self.chunk_counter += 1` left out
NextChunkCounter_Stuck(c) == c

\* the statement `self.chunk_counter += 1`
NextChunkCounter(c) == c + 1

InitWith(connections, frames) ==
    /\ slots = connections
    /\ chunk_counter = InitialChunkCounter
    /\ active_connections = {}
    /\ call_states = [s \in Sessions |-> NewCallState]
    /\ audio_buffers = [s \in Sessions |-> <<>>]
    /\ conversation_history = [s \in Sessions |-> <<>>]
    /\ stream_metadata = [s \in Sessions |-> 0]
    /\ silence_timers = {}
    /\ rpc = [s \in Sessions |-> "idle"]
    /\ wpc = [s \in Sessions |-> "none"]
    /\ ticks = [s \in Sessions |-> 0]
    /\ recent_speech = [s \in Sessions |-> FALSE]
    /\ wlocal = [s \in Sessions |-> 0]
    /\ turn = [s \in Sessions |-> NoTurn]
    /\ drained = [s \in Sessions |-> NoDrain]
    /\ ws = [s \in Sessions |-> "none"]
    /\ last_sent = [s \in Sessions |-> NoFrameSent]
    /\ frames_left = frames
    /\ inbound = NoInbound
    /\ call_history = <<>>
    /\ http = NoExchange
    /\ connection_id = [s \in Sessions |-> 0]

\* one call
Init == InitWith(1, MaxFrames) /\ probe = NoProbe

\* two calls on the same handler
InitTwo == InitWith(2, MaxFramesTwo) /\ probe = NoProbe

\* handle_media_stream accepts the socket and calls connect(); the clock
\* connect() reads has advanced since the previous connect(), so the
\* connection ids differ; sessions open in the order of their ids
Connect(s) ==
    /\ rpc[s] = "idle"
    /\ slots > 0
    /\ \A t \in Sessions : t < s => rpc[t] # "idle"
    /\ slots' = slots - 1
    /\ active_connections' = active_connections \cup {s}
    /\ conversation_history' = [conversation_history EXCEPT ![s] = <<>>]
    /\ audio_buffers' = [audio_buffers EXCEPT ![s] = <<>>]
    /\ call_states' = [call_states EXCEPT ![s] = NewCallState]
    /\ ws' = [ws EXCEPT ![s] = "open"]
    /\ rpc' = [rpc EXCEPT ![s] = "recv"]
    /\ connection_id' = [connection_id EXCEPT ![s] = s]
    /\ inbound' = NoInbound
    /\ UNCHANGED <<call_history, http, probe, chunk_counter, stream_metadata, silence_timers, wpc, ticks,
                   wlocal, turn, drained, last_sent, recent_speech, frames_left>>

\* ------------------------------------------------------------ transcripts
\* A transcript is a sequence of one-character strings.
Space == " "
T_empty == <<>>
T_uh == <<"u","h">>
T_hello == <<"H","e","l","l","o">>
T_speak_in_english ==
    <<"s","p","e","a","k",Space,"i","n",Space,"e","n","g","l","i","s","h">>
Transcripts == {T_empty, T_uh, T_hello, T_speak_in_english}

\* str.lower() on the letters the transcripts use
LowerChar(c) ==
    CASE c = "H" -> "h" [] c = "S" -> "s" [] c = "O" -> "o" [] c = "W" -> "w"
      [] OTHER -> c
Lower(t) == [i \in DOMAIN t |-> LowerChar(t[i])]

RECURSIVE LStrip(_)
LStrip(t) == IF t # <<>> /\ Head(t) = Space THEN LStrip(Tail(t)) ELSE t
RECURSIVE RStrip(_)
RStrip(t) ==
    IF t # <<>> /\ t[Len(t)] = Space THEN RStrip(SubSeq(t, 1, Len(t) - 1)) ELSE t
\* str.strip()
Strip(t) == LStrip(RStrip(t))

RECURSIVE SplitFrom(_, _, _)
SplitFrom(t, word, acc) ==
    IF t = <<>> THEN (IF word = <<>> THEN acc ELSE Append(acc, word))
    ELSE IF Head(t) = Space
         THEN SplitFrom(Tail(t), <<>>, IF word = <<>> THEN acc ELSE Append(acc, word))
         ELSE SplitFrom(Tail(t), Append(word, Head(t)), acc)
\* str.split(): the whitespace-separated words
Split(t) == SplitFrom(t, <<>>, <<>>)

filler_words ==
    { <<"s","o">>, <<"u","m">>, <<"u","h">>, <<"h","m","m">>, <<"a","h">>,
      <<"e","r">>, <<"w","e","l","l">>, <<"a","n","d">>, <<"t","h","e">>,
      <<"b","u","t">>, <<"o","h">> }

\* _is_meaningful_speech letting every transcript through
IsMeaningfulSpeech_Always(transcript) == TRUE

\* _is_meaningful_speech
IsMeaningfulSpeech(transcript) ==
    LET cleaned == Lower(Strip(transcript))
        words == Split(cleaned)
    IN  IF transcript = <<>> \/ Strip(transcript) = <<>> THEN FALSE
        ELSE IF cleaned \in filler_words THEN FALSE
        ELSE IF Len(cleaned) < 4 THEN FALSE
        ELSE IF Len(words) = 1 /\ Len(words[1]) < 5 THEN FALSE
        ELSE IF Len(words) >= 2 \/ (Len(words) = 1 /\ Len(words[1]) >= 5) THEN TRUE
        ELSE FALSE

Contains(t, phrase) ==
    \E i \in 1..(Len(t) - Len(phrase) + 1) :
        SubSeq(t, i, i + Len(phrase) - 1) = phrase

\* sarvam_service.detect_language_switch_request: a language whose trigger
\* phrase occurs in the lower-cased text, else "none"
DetectLanguageSwitchRequest(t) ==
    IF Contains(Lower(t), T_speak_in_english) THEN "en-IN" ELSE "none"

\* sarvam_service.speech_to_text / _convert_audio_to_text: a transcript, or
\* nothing (provider failure, or a transcript that is empty once stripped)
STTResults == Transcripts

\* what sarvam_service.detect_language_from_text may answer
DetectResults == Languages \cup {"none"}

\* vad_processor.has_speech
VADResults == BOOLEAN

\* ----------------------------------------------------------- LLM adapter
\* ClaudeService.generate_conversation_response, called when the service is
\* available: the provider's text, or the apology when the provider call
\* raises (the exception is caught inside the adapter)
GenerateConversationResponse(o) ==
    CASE o = "ok" -> "reply"
      [] o = "empty" -> "empty"
      [] o = "raise" -> "apology"
      [] OTHER -> "hello"

\* _generate_ai_response with an LLM failure escaping as an exception
GenerateAIResponse_Propagates(o) ==
    IF o \in {"unavailable", "raise"} THEN "EXC" ELSE GenerateConversationResponse(o)

\* _generate_ai_response: a canned reply when the service is unavailable,
\* else the adapter's answer; its own except branch returns a canned reply
GenerateAIResponse(o) ==
    IF o = "unavailable" THEN "fallback"
    ELSE LET r == GenerateConversationResponse(o)
         IN  IF r = "EXC" THEN "glad" ELSE r

\* ------------------------------------------------------ silence watchdog
\* _start_silence_monitoring / _reset_silence_monitoring: cancel the
\* registered task (it dies at the await it is suspended in) and register a
\* new one, which starts with sleep(30)
StartSilenceMonitoring(s) ==
    /\ silence_timers' = silence_timers \cup {s}
    /\ wpc' = [wpc EXCEPT ![s] = "sleep"]
    /\ ticks' = [ticks EXCEPT ![s] = 0]
    /\ wlocal' = [wlocal EXCEPT ![s] = 0]
    /\ recent_speech' = [recent_speech EXCEPT ![s] = FALSE]

\* --------------------------------------------------------- receive loop
CanReceive(s) ==
    /\ rpc[s] = "recv"
    /\ ws[s] = "open"
    /\ frames_left > 0

Consume(s, type) ==
    /\ frames_left' = frames_left - 1
    /\ inbound' = [session |-> s, type |-> type]
    /\ UNCHANGED slots

\* handle_incoming_message without its first check
CallEnded_Unchecked(call_state) == FALSE

\* the first check of handle_incoming_message:
\* `call_state.get('call_ended', False)`
CallEnded(call_state) == call_state.call_ended

\* handle_incoming_message, type "start" -> _handle_start_message up to its
\* sleep(1)
RecvStart(s) ==
    /\ CanReceive(s)
    /\ Consume(s, "start")
    /\ IF CallEnded(call_states[s])
       THEN UNCHANGED <<stream_metadata, call_states, rpc>>
       ELSE /\ stream_metadata' = [stream_metadata EXCEPT ![s] = FrameId]
            /\ call_states' = [call_states EXCEPT ![s].status = "active"]
            /\ rpc' = [rpc EXCEPT ![s] = "start_sleep"]
    /\ UNCHANGED <<connection_id, call_history, http, probe, chunk_counter, active_connections, audio_buffers,
                   conversation_history, silence_timers, wpc, ticks, wlocal,
                   turn, drained, ws, last_sent, recent_speech>>

\* _handle_start_message after the sleep: _send_initial_greeting up to its
\* text_to_speech call, or, when the greeting is not due, straight on to
\* _start_silence_monitoring
StartSleepDone(s) ==
    /\ rpc[s] = "start_sleep"
    /\ IF call_states[s].greeting_sent \/ call_states[s].call_ended
       THEN /\ StartSilenceMonitoring(s)
            /\ rpc' = [rpc EXCEPT ![s] = "recv"]
            /\ UNCHANGED call_states
       ELSE /\ call_states' = [call_states EXCEPT ![s].greeting_sent = TRUE,
                                                  ![s].waiting_for_user = TRUE]
            /\ rpc' = [rpc EXCEPT ![s] = "greet_tts"]
            /\ UNCHANGED <<silence_timers, wpc, ticks, wlocal, recent_speech>>
    /\ inbound' = NoInbound
    /\ UNCHANGED <<connection_id, call_history, http, probe, chunk_counter, active_connections, audio_buffers,
                   conversation_history, stream_metadata, turn, drained, ws,
                   last_sent, frames_left, slots>>

\* _send_initial_greeting after text_to_speech, then
\* _start_silence_monitoring
GreetTTSDone(s, a) ==
    /\ rpc[s] = "greet_tts"
    /\ IF a = "audio"
       THEN /\ last_sent' = [last_sent EXCEPT ![s] = Sent(s, "greeting")]
            /\ chunk_counter' = NextChunkCounter(chunk_counter)
       ELSE UNCHANGED <<last_sent, chunk_counter>>
    /\ StartSilenceMonitoring(s)
    /\ rpc' = [rpc EXCEPT ![s] = "recv"]
    /\ inbound' = NoInbound
    /\ UNCHANGED <<connection_id, call_history, http, probe, active_connections, call_states, audio_buffers,
                   conversation_history, stream_metadata, turn, drained, ws,
                   frames_left, slots>>

\* the drain without its `self.audio_buffers[connection_id] = []`
ClearedBuffer_Kept(chunks) == chunks

\* the statement `self.audio_buffers[connection_id] = []` of the drain
ClearedBuffer(chunks) == <<>>

\* _process_accumulated_audio without its "Mark as processing" statement
MarkedProcessing_Skipped(state) == state

\* `self.call_states[connection_id]['is_processing'] = True`
MarkedProcessing(state) == [state EXCEPT !.is_processing = TRUE]

\* _process_accumulated_audio without the assignment of its finally clause
MarkedNotProcessing_Skipped(state) == state

\* the finally clause of _process_accumulated_audio:
\* `self.call_states[connection_id]['is_processing'] = False`
MarkedNotProcessing(state) == [state EXCEPT !.is_processing = FALSE]

\* handle_incoming_message, type "audio" with decodable audio_b64 ->
\* _handle_audio_message -> (gate) -> _process_accumulated_audio up to its
\* speech_to_text call; vad is what vad_processor.has_speech answers
RecvAudio(s, len, vad) ==
    /\ CanReceive(s)
    /\ Consume(s, "audio")
    /\ IF call_states[s].call_ended
       THEN UNCHANGED <<audio_buffers, call_states, rpc, turn, drained>>
       ELSE LET buffered == Append(audio_buffers[s], [id |-> FrameId, len |-> len])
            IN  IF /\ call_states[s].waiting_for_user
                   /\ ~call_states[s].is_processing
                   /\ AccumulatedEnough(buffered)
                THEN /\ audio_buffers' =
                            [audio_buffers EXCEPT ![s] = ClearedBuffer(buffered)]
                     /\ drained' = [drained EXCEPT ![s] =
                            [audio_chunks |-> buffered,
                             combined_audio |-> CombineAudioChunks(buffered)]]
                     /\ IF vad
                        THEN /\ call_states' =
                                    [call_states EXCEPT ![s] = MarkedProcessing(@)]
                             /\ turn' = [turn EXCEPT ![s].language =
                                            call_states[s].current_language]
                             /\ rpc' = [rpc EXCEPT ![s] = "stt"]
                        ELSE UNCHANGED <<call_states, rpc, turn>>
                ELSE /\ audio_buffers' = [audio_buffers EXCEPT ![s] = buffered]
                     /\ vad
                     /\ UNCHANGED <<call_states, rpc, turn, drained>>
    /\ UNCHANGED <<connection_id, call_history, http, probe, chunk_counter, active_connections, conversation_history,
                   stream_metadata, silence_timers, wpc, ticks, wlocal, ws,
                   last_sent, recent_speech>>

IgnoredFrames == {"unknown", "badjson", "audio_nodata", "audio_undecodable"}

\* the exception of a bad frame escaping handle_incoming_message and ending
\* the receive loop
AfterLoggedFrame_Raises(type) == "closed"

\* where the receive loop is after a frame that was logged and dropped: the
\* except clauses of handle_incoming_message and the early returns do not
\* re-raise, so it is back at receive_text
AfterLoggedFrame(type) == "recv"

\* handle_incoming_message for a frame it logs and drops: bad JSON, a type
\* other than start and audio, audio without audio_b64, audio whose
\* audio_b64 makes b64decode raise
RecvIgnored(s, type) ==
    /\ CanReceive(s)
    /\ Consume(s, type)
    /\ rpc' = [rpc EXCEPT ![s] = AfterLoggedFrame(type)]
    /\ UNCHANGED <<connection_id, call_history, http, probe, chunk_counter, active_connections, call_states,
                   audio_buffers, conversation_history, stream_metadata,
                   silence_timers, wpc, ticks, wlocal, turn, drained, ws,
                   last_sent, recent_speech>>

\* the explicit switch without its assignment to current_language
SwitchedLanguage_Ignored(current, switch_language) == current

\* `self.call_states[connection_id]['current_language'] = switch_language`
SwitchedLanguage(current, switch_language) == switch_language

\* _process_accumulated_audio after speech_to_text: the meaningful-speech
\* gate and the explicit language switch, up to the next provider call
STTDone(s, r) ==
    /\ rpc[s] = "stt"
    /\ IF r = <<>> \/ Strip(r) = <<>> \/ ~IsMeaningfulSpeech(Strip(r))
       THEN /\ call_states' = [call_states EXCEPT ![s] = MarkedNotProcessing(@)]
            /\ rpc' = [rpc EXCEPT ![s] = "recv"]
            /\ turn' = [turn EXCEPT ![s] = NoTurn]
       ELSE LET switch_language == DetectLanguageSwitchRequest(Strip(r))
            IN  /\ turn' = [turn EXCEPT ![s].transcript = Strip(r)]
                /\ IF switch_language # "none"
                   THEN /\ call_states' = [call_states EXCEPT
                                ![s].current_language =
                                    SwitchedLanguage(call_states[s].current_language,
                                                     switch_language)]
                        /\ rpc' = [rpc EXCEPT ![s] = "confirm_tts"]
                   ELSE /\ rpc' = [rpc EXCEPT ![s] = "detect"]
                        /\ UNCHANGED call_states
    /\ inbound' = NoInbound
    /\ UNCHANGED <<connection_id, call_history, http, probe, chunk_counter, active_connections, audio_buffers,
                   conversation_history, stream_metadata, silence_timers, wpc,
                   ticks, wlocal, drained, ws, last_sent, recent_speech,
                   frames_left, slots>>

\* _send_language_switch_confirmation after text_to_speech (its send is
\* inside the try whose except skips the state update), then the finally of
\* _process_accumulated_audio
ConfirmTTSDone(s, a) ==
    /\ rpc[s] = "confirm_tts"
    /\ IF a = "audio"
       THEN /\ chunk_counter' = NextChunkCounter(chunk_counter)
            /\ last_sent' = [last_sent EXCEPT ![s] = Sent(s, "confirm")]
            /\ call_states' = [call_states EXCEPT ![s] =
                    MarkedNotProcessing(
                        [@ EXCEPT !.waiting_for_user =
                            IF ws[s] = "open" THEN TRUE
                            ELSE call_states[s].waiting_for_user])]
       ELSE /\ call_states' = [call_states EXCEPT ![s] = MarkedNotProcessing(@)]
            /\ UNCHANGED <<chunk_counter, last_sent>>
    /\ rpc' = [rpc EXCEPT ![s] = "recv"]
    /\ turn' = [turn EXCEPT ![s] = NoTurn]
    /\ inbound' = NoInbound
    /\ UNCHANGED <<connection_id, call_history, http, probe, active_connections, audio_buffers, conversation_history,
                   stream_metadata, silence_timers, wpc, ticks, wlocal, drained,
                   ws, recent_speech, frames_left, slots>>

\* _generate_and_send_ai_response appending the reply only after its
\* text_to_speech call has returned
WithAssistantEntry_Deferred(history) == history

\* `self.conversation_history[connection_id].append({"role": "assistant",
\* "content": ai_response})`, reached from the append of the user entry
\* without a suspension
WithAssistantEntry(history) == Append(history, "assistant")

\* _process_accumulated_audio after detect_language_from_text: automatic
\* language switch, the state update for meaningful user speech, the user
\* entry of the history, then _generate_and_send_ai_response up to its
\* text_to_speech call (the LLM call does not suspend)
DetectDone(s, d, o) ==
    /\ rpc[s] = "detect"
    /\ LET lang == IF d # "none" /\ d # turn[s].language
                   THEN d ELSE call_states[s].current_language
           reply == GenerateAIResponse(o)
           spoken == [call_states EXCEPT
                        ![s].current_language = lang,
                        ![s].last_user_speech = Set,
                        ![s].waiting_for_user = FALSE,
                        ![s].silence_warnings = 0]
           with_user == Append(conversation_history[s], "user")
       IN  IF reply = "EXC"
           THEN \* the except of _generate_and_send_ai_response, then the
                \* rest of the turn
                /\ conversation_history' =
                        [conversation_history EXCEPT ![s] = with_user]
                /\ call_states' = [spoken EXCEPT ![s] = MarkedNotProcessing(@)]
                /\ turn' = [turn EXCEPT ![s] = NoTurn]
                /\ StartSilenceMonitoring(s)
                /\ rpc' = [rpc EXCEPT ![s] = "recv"]
           ELSE /\ conversation_history' = [conversation_history EXCEPT
                        ![s] = WithAssistantEntry(with_user)]
                /\ call_states' = spoken
                /\ turn' = [turn EXCEPT ![s].reply =
                        IF reply = "empty" THEN "default" ELSE reply]
                /\ rpc' = [rpc EXCEPT ![s] = "tts"]
                /\ recent_speech' = [recent_speech EXCEPT ![s] = TRUE]
                /\ UNCHANGED <<silence_timers, wpc, ticks, wlocal>>
    /\ inbound' = NoInbound
    /\ UNCHANGED <<connection_id, call_history, http, probe, chunk_counter, active_connections, audio_buffers,
                   stream_metadata, drained, ws, last_sent, frames_left, slots>>

\* _generate_and_send_ai_response after text_to_speech, then
\* _reset_silence_monitoring and the finally of _process_accumulated_audio
TTSDone(s, a) ==
    /\ rpc[s] = "tts"
    /\ IF a = "audio"
       THEN /\ chunk_counter' = NextChunkCounter(chunk_counter)
            /\ last_sent' = [last_sent EXCEPT ![s] = Sent(s, "reply")]
            /\ call_states' = [call_states EXCEPT ![s] =
                    MarkedNotProcessing([@ EXCEPT !.waiting_for_user = TRUE])]
       ELSE /\ call_states' = [call_states EXCEPT ![s] = MarkedNotProcessing(@)]
            /\ UNCHANGED <<chunk_counter, last_sent>>
    /\ StartSilenceMonitoring(s)
    /\ rpc' = [rpc EXCEPT ![s] = "recv"]
    /\ turn' = [turn EXCEPT ![s] = NoTurn]
    /\ inbound' = NoInbound
    /\ UNCHANGED <<connection_id, call_history, http, probe, active_connections, audio_buffers, conversation_history,
                   stream_metadata, drained, ws, frames_left, slots>>

\* ------------------------------------------------- silence watchdog task
\* the tail of _end_call_gracefully: the registered timer, which is the task
\* running this very code, is cancelled and removed, then
\* websocket.close(code=1000, reason="Call ended due to inactivity") is
\* awaited.  The pending cancellation is delivered at the first suspension
\* inside close(); whether the close frame is written before that suspension
\* is up to the ASGI server, so both outcomes are kept (closes).  On a socket
\* that is already closed the call raises and is logged.
CancelAndClose(s, closes) ==
    /\ silence_timers' = silence_timers \ {s}
    /\ ws' = [ws EXCEPT ![s] =
                IF ws[s] = "open" /\ closes THEN "server_closed" ELSE ws[s]]
    /\ wpc' = [wpc EXCEPT ![s] = "done"]

\* the test `time_since_speech.total_seconds() >= 30` of _monitor_silence,
\* made when the watchdog wakes from sleep(30).  No clock is kept: the sleep
\* lasts at least 30 s, so a last_user_speech written before the sleep began
\* is at least 30 s old, and one written during the sleep (recent) is
\* younger or older than 30 s depending on how late the wake-up is (late).
SilentTooLong(recent, late) == ~recent \/ late

\* the test `warnings < max_warnings` of _monitor_silence
MayWarn(warnings) == warnings < MaxSilenceWarnings

\* the watchdog's count of wake-ups, kept up to MaxTicks
Ticked(n) == IF n < MaxTicks THEN n + 1 ELSE n

\* _monitor_silence: one wake-up from sleep(30), up to the next await
Tick(s, late) ==
    /\ wpc[s] = "sleep"
    /\ late \/ recent_speech[s]
    /\ ticks' = [ticks EXCEPT ![s] = Ticked(ticks[s])]
    /\ LET cs == call_states[s]
       IN  IF cs.call_ended
           THEN /\ wpc' = [wpc EXCEPT ![s] = "done"]
                /\ UNCHANGED <<wlocal, call_states, recent_speech>>
           ELSE IF cs.last_user_speech = None
                   \/ ~SilentTooLong(recent_speech[s], late)
           THEN \* back to sleep(30)
                /\ recent_speech' = [recent_speech EXCEPT ![s] = FALSE]
                /\ UNCHANGED <<wpc, wlocal, call_states>>
           ELSE IF MayWarn(cs.silence_warnings)
           THEN \* _send_silence_warning up to its text_to_speech call
                /\ wpc' = [wpc EXCEPT ![s] = "warn_tts"]
                /\ wlocal' = [wlocal EXCEPT ![s] = cs.silence_warnings]
                /\ UNCHANGED <<call_states, recent_speech>>
           ELSE \* _end_call_gracefully up to its text_to_speech call
                /\ call_states' = [call_states EXCEPT ![s].call_ended = TRUE,
                                                      ![s].status = "ended"]
                /\ wpc' = [wpc EXCEPT ![s] = "end_tts"]
                /\ UNCHANGED <<wlocal, recent_speech>>
    /\ inbound' = NoInbound
    /\ UNCHANGED <<connection_id, call_history, http, probe, chunk_counter, active_connections, audio_buffers,
                   conversation_history, stream_metadata, silence_timers, rpc,
                   turn, drained, ws, last_sent, frames_left, slots>>

\* _send_silence_warning after text_to_speech, then the write-back
\* `silence_warnings = warnings + 1` and the next sleep(30)
WarnTTSDone(s, a) ==
    /\ wpc[s] = "warn_tts"
    /\ IF a = "audio"
       THEN /\ chunk_counter' = NextChunkCounter(chunk_counter)
            /\ last_sent' = [last_sent EXCEPT ![s] = Sent(s, "prompt")]
       ELSE UNCHANGED <<chunk_counter, last_sent>>
    /\ call_states' = [call_states EXCEPT ![s].silence_warnings = wlocal[s] + 1]
    /\ wpc' = [wpc EXCEPT ![s] = "sleep"]
    /\ wlocal' = [wlocal EXCEPT ![s] = 0]
    /\ recent_speech' = [recent_speech EXCEPT ![s] = FALSE]
    /\ inbound' = NoInbound
    /\ UNCHANGED <<connection_id, call_history, http, probe, active_connections, audio_buffers, conversation_history,
                   stream_metadata, silence_timers, rpc, ticks, turn, drained,
                   ws, frames_left, slots>>

\* _end_call_gracefully after text_to_speech: the farewell frame and the
\* sleep(3), or, without farewell audio or when the send raises, straight
\* on to cancelling the timer and closing the socket
EndTTSDone(s, a, closes) ==
    /\ wpc[s] = "end_tts"
    /\ IF a = "audio"
       THEN /\ chunk_counter' = NextChunkCounter(chunk_counter)
            /\ last_sent' = [last_sent EXCEPT ![s] = Sent(s, "farewell")]
            /\ IF ws[s] = "open"
               THEN /\ wpc' = [wpc EXCEPT ![s] = "end_grace"]
                    /\ UNCHANGED <<silence_timers, ws>>
               ELSE CancelAndClose(s, closes)
       ELSE /\ CancelAndClose(s, closes)
            /\ UNCHANGED <<chunk_counter, last_sent>>
    /\ inbound' = NoInbound
    /\ UNCHANGED <<connection_id, call_history, http, probe, active_connections, call_states, audio_buffers,
                   conversation_history, stream_metadata, rpc, ticks, wlocal,
                   turn, drained, recent_speech, frames_left, slots>>

\* _end_call_gracefully after the sleep(3)
EndGraceDone(s, closes) ==
    /\ wpc[s] = "end_grace"
    /\ CancelAndClose(s, closes)
    /\ inbound' = NoInbound
    /\ UNCHANGED <<connection_id, call_history, http, probe, chunk_counter, active_connections, call_states,
                   audio_buffers, conversation_history, stream_metadata, rpc,
                   ticks, wlocal, turn, drained, last_sent, recent_speech,
                   frames_left, slots>>

\* ------------------------------------------------------------- teardown
\* the telephony provider closes the socket
PeerClose(s) ==
    /\ ws[s] = "open"
    /\ ws' = [ws EXCEPT ![s] = "peer_closed"]
    /\ inbound' = NoInbound
    /\ UNCHANGED <<connection_id, call_history, http, probe, chunk_counter, active_connections, call_states,
                   audio_buffers, conversation_history, stream_metadata,
                   silence_timers, rpc, wpc, ticks, wlocal, turn, drained,
                   last_sent, recent_speech, frames_left, slots>>

\* disconnect() without its `self.silence_timers[connection_id].cancel()`
Cancelled_Ignored(pc) == pc

\* Task.cancel() on the registered watchdog: the task ends at the await it
\* is suspended in
Cancelled(pc) == "done"

\* handle_media_stream: receive_text raises on the closed socket and the
\* finally calls disconnect()
Disconnect(s) ==
    /\ rpc[s] = "recv"
    /\ ws[s] \in {"peer_closed", "server_closed"}
    /\ active_connections' = active_connections \ {s}
    /\ conversation_history' = [conversation_history EXCEPT ![s] = <<>>]
    /\ stream_metadata' = [stream_metadata EXCEPT ![s] = 0]
    /\ call_states' = [call_states EXCEPT ![s] = NewCallState]
    /\ audio_buffers' = [audio_buffers EXCEPT ![s] = <<>>]
    /\ IF s \in silence_timers
       THEN /\ silence_timers' = silence_timers \ {s}
            /\ wpc' = [wpc EXCEPT ![s] = Cancelled(wpc[s])]
       ELSE UNCHANGED <<silence_timers, wpc>>
    /\ rpc' = [rpc EXCEPT ![s] = "closed"]
    /\ turn' = [turn EXCEPT ![s] = NoTurn]
    /\ drained' = [drained EXCEPT ![s] = NoDrain]
    /\ ticks' = [ticks EXCEPT ![s] = 0]
    /\ wlocal' = [wlocal EXCEPT ![s] = 0]
    /\ recent_speech' = [recent_speech EXCEPT ![s] = FALSE]
    /\ inbound' = NoInbound
    /\ UNCHANGED <<connection_id, call_history, http, probe, chunk_counter, ws, last_sent, frames_left, slots>>

Next ==
    \/ \E s \in Sessions : Connect(s)
    \/ \E s \in Sessions : RecvStart(s)
    \/ \E s \in Sessions : StartSleepDone(s)
    \/ \E s \in Sessions, a \in TTSResults : GreetTTSDone(s, a)
    \/ \E s \in Sessions, len \in ChunkLens, vad \in VADResults : RecvAudio(s, len, vad)
    \/ \E s \in Sessions, type \in IgnoredFrames : RecvIgnored(s, type)
    \/ \E s \in Sessions, r \in STTResults : STTDone(s, r)
    \/ \E s \in Sessions, a \in TTSResults : ConfirmTTSDone(s, a)
    \/ \E s \in Sessions, d \in DetectResults, o \in LLMOutcomes : DetectDone(s, d, o)
    \/ \E s \in Sessions, a \in TTSResults : TTSDone(s, a)
    \/ \E s \in Sessions, late \in BOOLEAN : Tick(s, late)
    \/ \E s \in Sessions, a \in TTSResults : WarnTTSDone(s, a)
    \/ \E s \in Sessions, a \in TTSResults, closes \in BOOLEAN :
            EndTTSDone(s, a, closes)
    \/ \E s \in Sessions, closes \in BOOLEAN : EndGraceDone(s, closes)
    \/ \E s \in Sessions : PeerClose(s)
    \/ \E s \in Sessions : Disconnect(s)

Spec == Init /\ [][Next]_vars

SpecTwo == InitTwo /\ [][Next]_vars

\* ================================================================ claims
Aligned(c) == c.len % 2 = 0

\* C1: on every session the chunk_id of each newly sent audio frame is
\* strictly larger than the chunk_id of the frame sent before it on that
\* session, whichever task (turn pipeline or silence watchdog) sends it.
C1_ChunkIdsIncrease ==
    [][\A s \in Sessions :
          last_sent'[s] # last_sent[s]
              => last_sent'[s].chunk_id > last_sent[s].chunk_id]_vars

\* the watchdog has put a prompt on the wire while a turn of the same session
\* is waiting for its reply audio
C1_Witness ==
    \E s \in Sessions :
        /\ rpc[s] = "tts"
        /\ ws[s] = "open"
        /\ last_sent[s].kind = "prompt"
        /\ last_sent[s].chunk_id > InitialChunkCounter

\* C2: the greeting, the first frame a session sends, carries chunk_id 1 on
\* every session, also on one opened after another session has sent audio.
C2_GreetingIsChunkOne ==
    \A s \in Sessions :
        last_sent[s].kind = "greeting"
            => last_sent[s].chunk_id = InitialChunkCounter

\* C3: once call_ended is set for a session no reply, confirmation or prompt
\* is put on the wire for it any more (the farewell of the ending sequence
\* is the one frame allowed).
C3_NoFrameAfterCallEnded ==
    [][\A s \in Sessions :
          call_states[s].call_ended /\ last_sent'[s] # last_sent[s]
              => last_sent'[s].kind = "farewell"]_vars

\* C4: when only the start frame has arrived and the greeting is out, a
\* watchdog that has woken up and gone back to sleep has issued a silence
\* prompt: silence_warnings is at least 1.
C4_FirstTickWarns ==
    \A s \in Sessions :
        /\ frames_left = MaxFrames - 1
        /\ stream_metadata[s] # 0
        /\ last_sent[s].kind = "greeting"
        /\ ws[s] = "open"
        /\ rpc[s] = "recv"
        /\ wpc[s] = "sleep"
        /\ ticks[s] >= 1
        => call_states[s].silence_warnings >= 1

\* C5: a session whose call the watchdog has ended, and whose watchdog has
\* run to completion, has had its socket closed.
C5_EndedCallIsClosed ==
    \A s \in active_connections :
        call_states[s].call_ended /\ wpc[s] = "done" => ws[s] # "open"

\* C6: a turn that got past the meaningful-speech gate ends, on a live call,
\* with is_processing false and waiting_for_user true, whatever the LLM and
\* TTS calls answered.
C6_TurnEndsListening ==
    [][\A s \in Sessions :
          /\ rpc[s] \in {"detect", "tts", "confirm_tts"}
          /\ rpc'[s] = "recv"
          /\ ws[s] = "open"
          /\ ~call_states'[s].call_ended
          => /\ ~call_states'[s].is_processing
             /\ call_states'[s].waiting_for_user]_vars

\* C7: whatever the LLM call does (answer, empty answer, service
\* unavailable, exception) the turn goes on to TTS with the user entry and an
\* assistant entry appended to the history, and call_ended is not touched.
C7_LLMFailureContained ==
    [][\A s \in Sessions :
          rpc[s] = "detect" /\ rpc'[s] # "detect"
              => /\ rpc'[s] = "tts"
                 /\ turn'[s].reply # "none"
                 /\ conversation_history'[s] =
                        conversation_history[s] \o <<"user", "assistant">>
                 /\ call_states'[s].call_ended = call_states[s].call_ended]_vars

\* a turn is at its TTS call with the canned reply of an LLM failure
C7_Witness ==
    \E s \in Sessions :
        /\ rpc[s] = "tts"
        /\ turn[s].reply \in {"fallback", "apology"}
        /\ conversation_history[s][Len(conversation_history[s])] = "assistant"
        /\ ~call_states[s].call_ended

\* C8: in every session's history adjacent entries have different roles and
\* the first entry, if any, is the assistant's.
C8_HistoryAlternates ==
    \A s \in Sessions :
        LET h == conversation_history[s]
        IN  /\ h # <<>> => h[1] = "assistant"
            /\ \A i \in 1..(Len(h) - 1) : h[i] # h[i + 1]

\* C9: the audio a drain hands on contains, in arrival order, every chunk of
\* the drained buffer that is aligned to 16-bit samples.
C9_DrainKeepsAlignedChunks ==
    \A s \in Sessions :
        SelectSeq(drained[s].combined_audio, Aligned)
            = SelectSeq(drained[s].audio_chunks, Aligned)

\* C10: while a session's STT call is in flight its audio buffer is empty.
C10_BufferEmptyAtSTT ==
    \A s \in Sessions : rpc[s] = "stt" => audio_buffers[s] = <<>>

\* the STT call is in flight for a drain of several buffered chunks
C10_Witness ==
    \E s \in Sessions :
        /\ rpc[s] = "stt"
        /\ Len(drained[s].audio_chunks) >= 2
        /\ audio_buffers[s] = <<>>

\* C11: in every state of every session is_processing implies that
\* waiting_for_user is false.
C11_ProcessingImpliesNotWaiting ==
    \A s \in Sessions :
        call_states[s].is_processing => ~call_states[s].waiting_for_user

\* C12: a drain whose audio has no speech stays in the receive loop without
\* an STT call, and a turn that returns straight from its STT call (empty or
\* not meaningful transcript) does so too; either leaves the buffer empty,
\* sends no frame, leaves history, language, silence_warnings and
\* last_user_speech as they were, waiting_for_user true and is_processing
\* false.  A turn that goes on after STT carries a transcript that is not
\* empty, not a filler word and at least 4 characters long.
C12_RejectedTurnHasNoEffect ==
    [][\A s \in Sessions :
          /\ ( \/ rpc[s] = "recv" /\ rpc'[s] = "recv" /\ drained'[s] # drained[s]
               \/ rpc[s] = "stt" /\ rpc'[s] = "recv" )
             => /\ audio_buffers'[s] = <<>>
                /\ last_sent' = last_sent
                /\ chunk_counter' = chunk_counter
                /\ conversation_history' = conversation_history
                /\ call_states'[s] = [call_states[s] EXCEPT !.is_processing = FALSE]
                /\ call_states'[s].waiting_for_user
                /\ <<silence_timers', wpc'>> = <<silence_timers, wpc>>
          /\ rpc[s] = "stt" /\ rpc'[s] \notin {"stt", "recv"}
             => /\ turn'[s].transcript # <<>>
                /\ Lower(turn'[s].transcript) \notin filler_words
                /\ Len(turn'[s].transcript) >= 4]_vars

\* a session back in its receive loop after a drain that had no effect
C12_Witness ==
    \E s \in Sessions :
        /\ rpc[s] = "recv"
        /\ drained[s] # NoDrain
        /\ audio_buffers[s] = <<>>
        /\ conversation_history[s] = <<>>
        /\ call_states[s].current_language = DefaultLanguage
        /\ call_states[s].last_user_speech = None
        /\ call_states[s].waiting_for_user
        /\ ~call_states[s].is_processing
        /\ last_sent[s].kind = "greeting"

MaxWords == 3

\* words the probed transcripts are made of
ProbeWords ==
    { <<>>,
      <<"s","o">>,
      <<"u","h">>,
      <<"o","h">>,
      <<"h","i">>,
      <<"h","e","l","l","o">>,
      <<"o","k">>,
      <<"g","o">>,
      <<"k","y","a">>,
      <<"h","a","a","l">>,
      <<"h","a","i">>,
      <<"W","e","l","l">> }

RECURSIVE JoinWords(_)
\* the words of a list separated by one space each (an empty word leaves two
\* spaces in a row)
JoinWords(word_list) ==
    IF word_list = <<>> THEN <<>>
    ELSE IF Len(word_list) = 1 THEN word_list[1]
    ELSE word_list[1] \o <<Space>> \o JoinWords(Tail(word_list))

\* transcripts speech_to_text may hand to _is_meaningful_speech: up to
\* MaxWords words, with or without surrounding blanks
ProbeTranscripts ==
    { pad \o JoinWords(word_list) \o pad :
        word_list \in [1..MaxWords -> ProbeWords], pad \in {<<>>, <<Space>>} }

H_localhost == <<"l","o","c","a","l","h","o","s","t">>
\* values of the environment variable BACKEND_DOMAIN
ProbeHosts ==
    { <<"l","o","c","a","l","h","o","s","t",":","8","0","0","0">>,
      <<"l","o","c","a","l","h","o","s","t">>,
      <<"e","x","a","m","p","l","e",".","c","o","m">> }

WssScheme == <<"w","s","s",":","/","/">>
MediaStreamPath == <<"/","m","e","d","i","a","-","s","t","r","e","a","m">>
ChunkSize == 500

\* str.startswith
StartsWith(t, prefix) ==
    Len(t) >= Len(prefix) /\ SubSeq(t, 1, Len(prefix)) = prefix

\* stream_flow (POST /flow): CallFlow.stream(ws_url=f"wss://{BACKEND_DOMAIN}
\* /media-stream", chunk_size=500, record=True), returned as JSON
StreamFlow(host) ==
    [action |-> "stream", ws_url |-> WssScheme \o host \o MediaStreamPath,
     chunk_size |-> ChunkSize, record |-> TRUE]

InitFunctions ==
    /\ InitWith(0, 0)
    /\ \E t \in ProbeTranscripts, h \in ProbeHosts :
           probe = [NoProbe EXCEPT !.transcript = t, !.host = h]

\* _is_meaningful_speech applied to the probed transcript
Judge ==
    /\ probe.meaningful = "none"
    /\ probe' = [probe EXCEPT !.meaningful =
                    IF IsMeaningfulSpeech(probe.transcript) THEN "true" ELSE "false"]
    /\ UNCHANGED <<connection_id, call_history, http, chunk_counter, active_connections,
                   call_states, audio_buffers, conversation_history, stream_metadata,
                   silence_timers, rpc, wpc, ticks, wlocal, turn, drained, ws,
                   last_sent, recent_speech, frames_left, slots, inbound>>

\* POST /flow with BACKEND_DOMAIN set to the probed host
Flow ==
    /\ probe.flow = NoFlow
    /\ probe' = [probe EXCEPT !.flow = StreamFlow(probe.host)]
    /\ UNCHANGED <<connection_id, call_history, http, chunk_counter, active_connections,
                   call_states, audio_buffers, conversation_history, stream_metadata,
                   silence_timers, rpc, wpc, ticks, wlocal, turn, drained, ws,
                   last_sent, recent_speech, frames_left, slots, inbound>>

NextFunctions == Judge \/ Flow

SpecFunctions == InitFunctions /\ [][NextFunctions]_vars

\* C14: _is_meaningful_speech answers true exactly for the transcripts
\* whose trimmed, lower-cased text t is non-empty, is none of so, um, uh, hmm,
\* ah, er, well, and, the, but, oh, has at least 4 characters, and has at
\* least 2 whitespace-separated words or exactly one word of 5 or more.
C14_MeaningfulAsSpecified ==
    probe.meaningful # "none" =>
        LET t == Lower(Strip(probe.transcript))
            words == Split(t)
            fillers ==
                { <<"s","o">>, <<"u","m">>, <<"u","h">>, <<"h","m","m">>,
                  <<"a","h">>, <<"e","r">>, <<"w","e","l","l">>,
                  <<"a","n","d">>, <<"t","h","e">>, <<"b","u","t">>,
                  <<"o","h">> }
        IN  (probe.meaningful = "true")
                <=> /\ t # <<>>
                    /\ t \notin fillers
                    /\ Len(t) >= 4
                    /\ \/ Len(words) >= 2
                       \/ Len(words) = 1 /\ Len(words[1]) >= 5

\* "kya haal hai" has been judged meaningful
C14_Witness ==
    /\ probe.transcript = <<"k","y","a",Space,"h","a","a","l",Space,"h","a","i">>
    /\ probe.meaningful = "true"

\* C15: a step that handles a frame that is not valid JSON, or whose type is
\* neither start nor audio, leaves the session connected and in its receive
\* loop with the socket as it was, and changes neither call state, audio
\* buffer, history, watchdog nor the frames sent.
C15_BadFrameIgnored ==
    [][\A s \in Sessions :
          inbound'.session = s /\ inbound'.type \in {"badjson", "unknown"}
              => /\ rpc'[s] = "recv"
                 /\ ws'[s] = "open"
                 /\ active_connections' = active_connections
                 /\ call_states' = call_states
                 /\ audio_buffers' = audio_buffers
                 /\ conversation_history' = conversation_history
                 /\ stream_metadata' = stream_metadata
                 /\ <<silence_timers', wpc'>> = <<silence_timers, wpc>>
                 /\ <<last_sent', chunk_counter'>> = <<last_sent, chunk_counter>>]_vars

\* a frame that is not JSON has just been handled on a started call that
\* holds buffered audio
C15_Witness ==
    \E s \in Sessions :
        /\ inbound = [session |-> s, type |-> "badjson"]
        /\ call_states[s].status = "active"
        /\ audio_buffers[s] # <<>>
        /\ rpc[s] = "recv"

\* C16: a step that handles an audio frame whose audio_b64 is missing or makes
\* the decoder raise appends nothing to the audio buffer, starts no drain and
\* no turn, and leaves the session connected and in its receive loop.
C16_BadAudioDropped ==
    [][\A s \in Sessions :
          /\ inbound'.session = s
          /\ inbound'.type \in {"audio_nodata", "audio_undecodable"}
          => /\ audio_buffers' = audio_buffers
             /\ drained' = drained
             /\ rpc'[s] = "recv"
             /\ ws'[s] = "open"
             /\ s \in active_connections'
             /\ call_states' = call_states
             /\ conversation_history' = conversation_history]_vars

\* an undecodable audio frame has just been dropped on a session whose
\* buffer holds an earlier chunk
C16_Witness ==
    \E s \in Sessions :
        /\ inbound = [session |-> s, type |-> "audio_undecodable"]
        /\ Len(audio_buffers[s]) = 1
        /\ rpc[s] = "recv"
        /\ ~call_states[s].call_ended

\* C17: once handle_media_stream has left a connection (its socket ended and
\* disconnect() ran) the connection is in neither active_connections nor
\* silence_timers, no watchdog task of it is alive, and it has no call state,
\* buffered audio, history or stream metadata left.
C17_TornDown ==
    \A s \in Sessions :
        rpc[s] = "closed"
            => /\ s \notin active_connections
               /\ s \notin silence_timers
               /\ wpc[s] \in {"none", "done"}
               /\ call_states[s] = NewCallState
               /\ audio_buffers[s] = <<>>
               /\ conversation_history[s] = <<>>
               /\ stream_metadata[s] = 0

\* a connection torn down after the peer closed the socket of a call on
\* which the watchdog had been prompting
C17_Witness ==
    \E s \in Sessions :
        /\ rpc[s] = "closed"
        /\ ws[s] = "peer_closed"
        /\ last_sent[s].kind = "prompt"

\* C18: barge-in.  When the audio frame of a new reply is put on a socket
\* whose previous response is still being played, the frame sent just before
\* it is a clear frame.  No playout clock is kept: a previous response counts
\* as still being played while the watchdog restarted after it has not yet
\* woken from its first sleep(30), i.e. the new reply follows it within 30 s.
C18_ClearBeforeNewReply ==
    [][\A s \in Sessions :
          (/\ last_sent'[s] # last_sent[s]
           /\ last_sent'[s].kind = "reply"
           /\ last_sent[s].kind # "none"
           /\ wpc[s] = "sleep"
           /\ ticks[s] = 0)
              => last_sent[s].kind = "clear"]_vars

\* C19: a session has a turn pipeline in progress (its receive loop is
\* suspended in speech_to_text, detect_language_from_text or text_to_speech
\* of _process_accumulated_audio) exactly while its is_processing is true,
\* and a step that starts a pipeline is taken only by a session that has none
\* in progress and whose is_processing is false; sessions are independent,
\* so two of them can be inside a pipeline at once (the witness).
C19_OnePipelinePerSession ==
    [][\A s \in Sessions :
          LET stages == {"stt", "detect", "confirm_tts", "tts"}
          IN  /\ call_states[s].is_processing <=> rpc[s] \in stages
              /\ call_states'[s].is_processing <=> rpc'[s] \in stages
              /\ (drained'[s] # drained[s] \/ (rpc'[s] = "stt" /\ rpc[s] # "stt"))
                    => /\ rpc[s] = "recv"
                       /\ ~call_states[s].is_processing]_vars

\* the turns of two sessions overlap
C19_Witness ==
    /\ rpc[1] \in {"stt", "detect", "confirm_tts", "tts"}
    /\ rpc[2] \in {"stt", "detect", "confirm_tts", "tts"}
    /\ call_states[1].is_processing
    /\ call_states[2].is_processing

\* C20: the flow returned by POST /flow for a configured public host is
\* {action: "stream", ws_url: <scheme>://<host>/media-stream, chunk_size:
\* 500, record: true}, the scheme being ws when the host begins with
\* localhost and wss otherwise.
C20_FlowSchemeFollowsHost ==
    probe.flow # NoFlow
        => LET scheme == IF StartsWith(probe.host, H_localhost)
                         THEN <<"w","s",":","/","/">>
                         ELSE <<"w","s","s",":","/","/">>
           IN  probe.flow =
                   [action |-> "stream",
                    ws_url |-> scheme \o probe.host
                               \o <<"/","m","e","d","i","a","-","s","t","r","e","a","m">>,
                    chunk_size |-> 500,
                    record |-> TRUE]

\* ---------------------------------------------------------- HTTP routes
\* The two HTTP applications of the repository: backend/fastapi_app.py
\* (which also serves /media-stream) and the Flask draft backend/app.py.
\* One behaviour runs one of them.  A request is handled in one step.
MaxRequests == 3
Apps == {"fastapi", "flask"}
\* call ids create_teler_call can answer with: the provider's id, or the
\* mock's f"call_{int(datetime.now().timestamp())}", which repeats within a
\* second
CallIds == {"call_1", "call_2"}
\* a JSON value of a request field: missing (None), the empty string, or a
\* non-empty string
Empty == ""
FieldValues == {None, Empty, "+911"}
RequiredFields == <<"from_number", "to_number", "flow_url">>
InitiateBodies ==
    [from_number : FieldValues, to_number : FieldValues, flow_url : FieldValues]
\* bodies of POST /flow: the keys present and how the body is encoded
FlowFieldSets ==
    { {},
      {"call_id", "account_id", "from_number", "to_number"},
      {"call_id", "account_id", "from_number", "to_number", "direction"},
      {"call_id", "from_number", "to_number", "direction"} }
FlowBodies == [encoding : {"json", "form"}, fields : FlowFieldSets]
\* payloads of POST /webhook
WebhookPayloads ==
    [encoding : {"json", "form"},
     call_id : {None} \cup CallIds,
     CallSid : {None, "call_1"},
     id : {None, "call_2"},
     status : {None, "completed"}]
NoPayload ==
    [encoding |-> "none", call_id |-> None, CallSid |-> None, id |-> None,
     status |-> None]

\* what a handler leaves behind: its response, call_history, and whether
\* create_teler_call was invoked
Outcome(response, history, called) ==
    [response |-> response, call_history |-> history, called |-> called]

\* FastAPI's answer to a body that does not validate against the declared
\* request model: 422 with a `detail` list, the handler is not entered
ValidationError == [NoResponse EXCEPT !.status = 422]

\* class CallFlowRequest(BaseModel): four required str fields of a JSON body
CallFlowRequest(body) ==
    /\ body.encoding = "json"
    /\ {"call_id", "account_id", "from_number", "to_number"} \subseteq body.fields

\* stream_flow of fastapi_app.py (POST /flow, status_code 200)
StreamFlowResponse(body, host) ==
    IF CallFlowRequest(body)
    THEN [NoResponse EXCEPT !.status = 200, !.flow = StreamFlow(host)]
    ELSE ValidationError

\* the second flow_config of flow_endpoint (app.py)
FlaskFlowConfig(host) ==
    [action |-> "stream", ws_url |-> WssScheme \o host \o MediaStreamPath,
     chunk_size |-> ChunkSize, sample_rate |-> "8k"]

\* flow_endpoint of app.py: data['call_id'], data['from_number'],
\* data['to_number'] and data['direction'] are evaluated as the defaults of
\* data.get, so a body without one of them raises KeyError; the except
\* clause only assigns `data = request.get_json()` and the view returns
\* None, which Flask answers with 500.  On a form body get_json itself
\* raises 415 in the Flask versions that reject a non-JSON content type
\* (unsupported).
FlowEndpoint(body, host, unsupported) ==
    IF {"call_id", "from_number", "to_number", "direction"} \subseteq body.fields
    THEN [NoResponse EXCEPT !.status = 200, !.flow = FlaskFlowConfig(host)]
    ELSE [NoResponse EXCEPT !.status =
              IF body.encoding = "form" /\ unsupported THEN 415 ELSE 500]

\* class CallInitiateRequest(BaseModel): from_number, to_number and flow_url
\* are required str fields; the empty string is a str
CallInitiateRequest(body) ==
    \A i \in 1..Len(RequiredFields) : body[RequiredFields[i]] # None

\* call_record and call_history.insert(0, call_record)
Recorded(history, body, call_id) ==
    <<[id |-> Len(history) + 1, call_id |-> call_id, status |-> "initiated",
       from_number |-> body.from_number, to_number |-> body.to_number,
       flow_url |-> body.flow_url, webhook_data |-> NoPayload,
       updated_at |-> 0]>> \o history

\* initiate_call of fastapi_app.py; call_id is what create_teler_call
\* answers (it never raises: every failure falls back to the mock client)
InitiateCall(body, call_id, history) ==
    IF CallInitiateRequest(body)
    THEN Outcome([NoResponse EXCEPT !.status = 200, !.success = "true"],
                 Recorded(history, body, call_id), TRUE)
    ELSE Outcome(ValidationError, history, FALSE)

\* `if not data.get(field)` of app.py: the field is missing or empty
Missing(body, field) == body[field] = None \/ body[field] = Empty

\* the first field of required_fields that is missing, 0 if none is
FirstMissing(body) ==
    IF \E i \in 1..Len(RequiredFields) : Missing(body, RequiredFields[i])
    THEN CHOOSE i \in 1..Len(RequiredFields) :
            /\ Missing(body, RequiredFields[i])
            /\ \A j \in 1..(i - 1) : ~Missing(body, RequiredFields[j])
    ELSE 0

\* f'Missing required field: {field}'
MissingFieldError(field) ==
    CASE field = "from_number" -> "Missing required field: from_number"
      [] field = "to_number" -> "Missing required field: to_number"
      [] field = "flow_url" -> "Missing required field: flow_url"

\* initiate_call of app.py, for a JSON body
FlaskInitiateCall(body, call_id, history) ==
    IF FirstMissing(body) # 0
    THEN Outcome([NoResponse EXCEPT
                     !.status = 400, !.success = "false",
                     !.error = MissingFieldError(RequiredFields[FirstMissing(body)])],
                 history, FALSE)
    ELSE Outcome([NoResponse EXCEPT !.status = 200, !.success = "true"],
                 Recorded(history, body, call_id), TRUE)

\* data.get('call_id') or data.get('CallSid') or data.get('id')
WebhookCallId(data) ==
    IF data.call_id # None THEN data.call_id
    ELSE IF data.CallSid # None THEN data.CallSid
    ELSE data.id

\* the loop over call_history of the webhook handlers: the first record
\* whose call_id matches gets webhook_data, status (if the payload has one)
\* and updated_at, then `break`
UpdatedHistory(history, data, now) ==
    LET call_id == WebhookCallId(data)
        hits == {i \in 1..Len(history) : history[i].call_id = call_id}
    IN  IF call_id = None \/ hits = {}
        THEN history
        ELSE LET first == CHOOSE i \in hits : \A j \in hits : i <= j
             IN  [history EXCEPT ![first] =
                     [@ EXCEPT !.webhook_data = data,
                               !.status = IF data.status # None
                                          THEN data.status ELSE @,
                               !.updated_at = now]]

\* webhook_receiver of fastapi_app.py: `data: dict = Body(...)` takes a JSON
\* object only; the answer is {"message": "Webhook received successfully"}
WebhookReceiver(data, history, now) ==
    IF data.encoding = "json"
    THEN Outcome([NoResponse EXCEPT !.status = 200],
                 UpdatedHistory(history, data, now), FALSE)
    ELSE Outcome(ValidationError, history, FALSE)

\* webhook of app.py: form or JSON; the answer is {'message': ..., 'status':
\* 'ok'}
Webhook(data, history, now) ==
    Outcome([NoResponse EXCEPT !.status = 200],
            UpdatedHistory(history, data, now), FALSE)

InitHttp ==
    /\ InitWith(0, 0)
    /\ \E h \in ProbeHosts : probe = [NoProbe EXCEPT !.host = h]

\* the application is started
Serve(app) ==
    /\ http.app = "none"
    /\ http' = [http EXCEPT !.app = app]
    /\ UNCHANGED <<connection_id, call_history, chunk_counter, active_connections,
                   call_states, audio_buffers, conversation_history,
                   stream_metadata, silence_timers, rpc, wpc, ticks, wlocal,
                   turn, drained, ws, last_sent, recent_speech, frames_left,
                   slots, probe, inbound>>

\* the exchange of one request: the handler's outcome becomes the state
Exchange(route, body, outcome) ==
    /\ http.app # "none"
    /\ http.seq < MaxRequests
    /\ http' = [http EXCEPT !.seq = @ + 1, !.route = route, !.body = body,
                            !.response = outcome.response,
                            !.called = outcome.called]
    /\ call_history' = outcome.call_history
    /\ UNCHANGED <<connection_id, chunk_counter, active_connections, call_states,
                   audio_buffers, conversation_history, stream_metadata,
                   silence_timers, rpc, wpc, ticks, wlocal, turn, drained, ws,
                   last_sent, recent_speech, frames_left, slots, probe,
                   inbound>>

PostFlow(body, unsupported) ==
    Exchange("flow", body,
             Outcome(IF http.app = "fastapi"
                     THEN StreamFlowResponse(body, probe.host)
                     ELSE FlowEndpoint(body, probe.host, unsupported),
                     call_history, FALSE))

PostInitiate(body, call_id) ==
    Exchange("initiate", body,
             IF http.app = "fastapi"
             THEN InitiateCall(body, call_id, call_history)
             ELSE FlaskInitiateCall(body, call_id, call_history))

PostWebhook(data) ==
    Exchange("webhook", data,
             IF http.app = "fastapi"
             THEN WebhookReceiver(data, call_history, http.seq + 1)
             ELSE Webhook(data, call_history, http.seq + 1))

NextHttp ==
    \/ \E app \in Apps : Serve(app)
    \/ \E body \in FlowBodies, unsupported \in BOOLEAN : PostFlow(body, unsupported)
    \/ \E body \in InitiateBodies, call_id \in CallIds : PostInitiate(body, call_id)
    \/ \E data \in WebhookPayloads : PostWebhook(data)

SpecHttp == InitHttp /\ [][NextHttp]_vars

\* C21: whatever the body of a POST /flow request (JSON or form, with or
\* without the expected fields), the answer has status 200.
C21_FlowAlways200 ==
    http.route = "flow" => http.response.status = 200

\* C22: a POST /api/calls/initiate whose body lacks from_number, to_number
\* or flow_url, or carries it empty, is answered 400 with success false and
\* the error "Missing required field: <name>" for the first such field in
\* the order from_number, to_number, flow_url; no call is created and
\* call_history is left as it was.
C22_MissingFieldIs400 ==
    [][(/\ http'.seq # http.seq
        /\ http'.route = "initiate"
        /\ \E f \in {"from_number", "to_number", "flow_url"} :
              http'.body[f] \in {"None", ""})
          => LET b == http'.body
                 lacks(f) == b[f] \in {"None", ""}
                 expected ==
                     IF lacks("from_number")
                     THEN "Missing required field: from_number"
                     ELSE IF lacks("to_number")
                     THEN "Missing required field: to_number"
                     ELSE "Missing required field: flow_url"
             IN  /\ http'.response.status = 400
                 /\ http'.response.success = "false"
                 /\ http'.response.error = expected
                 /\ ~http'.called
                 /\ call_history' = call_history]_vars

\* C23: every POST /webhook is answered 200 with success true.  When the
\* payload's call id (call_id, else CallSid, else id) is the call_id of a
\* record, one such record gets the payload as webhook_data, the payload's
\* status if it has one and a new updated_at, and nothing else in
\* call_history changes; when it is the call_id of no record, call_history
\* does not change.
C23_WebhookAlwaysSucceeds ==
    [][(http'.seq # http.seq /\ http'.route = "webhook")
          => LET data == http'.body
                 call_id == IF data.call_id # "None" THEN data.call_id
                            ELSE IF data.CallSid # "None" THEN data.CallSid
                            ELSE data.id
                 hits == {i \in 1..Len(call_history) :
                             call_history[i].call_id = call_id}
             IN  /\ http'.response.status = 200
                 /\ http'.response.success = "true"
                 /\ Len(call_history') = Len(call_history)
                 /\ IF hits = {}
                    THEN call_history' = call_history
                    ELSE \E i \in hits :
                            /\ call_history'[i] =
                                   [call_history[i] EXCEPT
                                       !.webhook_data = data,
                                       !.status = IF data.status # "None"
                                                  THEN data.status ELSE @,
                                       !.updated_at = http'.seq]
                            /\ \A j \in 1..Len(call_history) :
                                  j # i => call_history'[j] = call_history[j]]_vars

\* C24: in every state, a session whose call_ended is true has
\* waiting_for_user false and an empty audio buffer.
C24_EndedIsQuiet ==
    \A s \in Sessions :
        call_states[s].call_ended
            => /\ ~call_states[s].waiting_for_user
               /\ audio_buffers[s] = <<>>

\* C25: whenever a session's history can be read (in every state, the ones
\* where its turn is suspended in text_to_speech included) it consists of
\* complete turns: every user entry is directly followed by the assistant
\* entry of the same turn.
C25_TurnsAppendedWhole ==
    \A s \in Sessions :
        LET h == conversation_history[s]
        IN  \A i \in 1..Len(h) :
                h[i] = "user" => (i < Len(h) /\ h[i + 1] = "assistant")

\* the second turn of a call is suspended in text_to_speech with both of its
\* entries in the history
C25_Witness ==
    \E s \in Sessions :
        /\ rpc[s] = "tts"
        /\ conversation_history[s] = <<"user", "assistant", "user", "assistant">>

\* ------------------------------------------------------------ a long call
\* One call in which the caller keeps talking: audio frames only, the socket
\* stays open, and the turns follow each other within the watchdog's 30 s
\* sleep, so the watchdog (restarted at the end of every turn) never wakes.
MaxFramesLong == 11
InitLong == InitWith(1, MaxFramesLong) /\ probe = NoProbe

NextLong ==
    \/ \E s \in Sessions : Connect(s)
    \/ \E s \in Sessions, len \in ChunkLens, vad \in VADResults : RecvAudio(s, len, vad)
    \/ \E s \in Sessions, r \in STTResults : STTDone(s, r)
    \/ \E s \in Sessions, a \in TTSResults : ConfirmTTSDone(s, a)
    \/ \E s \in Sessions, d \in DetectResults, o \in LLMOutcomes : DetectDone(s, d, o)
    \/ \E s \in Sessions, a \in TTSResults : TTSDone(s, a)

SpecLong == InitLong /\ [][NextLong]_vars

\* C26: a session's conversation_history never holds more than 20 entries.
C26_HistoryAtMost20 ==
    \A s \in Sessions : Len(conversation_history[s]) <= 20

\* C27: when an audio frame is handled, the buffer with the frame appended is
\* drained (cleared and handed to VAD, then to STT if VAD finds speech)
\* exactly if the call has not ended, waiting_for_user is true,
\* is_processing is false and the buffer then holds at least 3000 ms
\* (48000 bytes).  In every other case nothing is drained, no VAD or STT
\* call is made and the call state is untouched: the frame is appended to
\* the buffer, or dropped when the call has ended.
C27_AccumulationGate ==
    [][\A s \in Sessions :
          (/\ frames_left' # frames_left
           /\ inbound'.type = "audio"
           /\ inbound'.session = s)
             => \E len \in ChunkLens :
                  LET buffered == Append(audio_buffers[s],
                                         [id |-> FrameId, len |-> len])
                      gate == /\ ~call_states[s].call_ended
                              /\ call_states[s].waiting_for_user
                              /\ ~call_states[s].is_processing
                              /\ SumLen(buffered) >= 48000
                  IN  IF gate
                      THEN /\ drained'[s].audio_chunks = buffered
                           /\ audio_buffers'[s] = <<>>
                           /\ rpc'[s] \in {"recv", "stt"}
                      ELSE /\ drained' = drained
                           /\ rpc'[s] = "recv"
                           /\ call_states' = call_states
                           /\ audio_buffers'[s] =
                                 IF call_states[s].call_ended
                                 THEN audio_buffers[s] ELSE buffered]_vars

\* a frame of about 1.5 s was only buffered: the session is back at
\* receive_text with nothing drained
C27_Witness ==
    \E s \in Sessions :
        /\ inbound = [session |-> s, type |-> "audio"]
        /\ Len(audio_buffers[s]) = 1
        /\ audio_buffers[s][1].len = 24001
        /\ drained[s] = NoDrain
        /\ rpc[s] = "recv"
        /\ call_states[s].waiting_for_user

\* C28: a turn whose text-based language detection changes current_language
\* goes on to the language-switch confirmation (its text_to_speech call)
\* with no LLM reply and leaves conversation_history as it was.
C28_AutoSwitchConfirms ==
    [][\A s \in Sessions :
          (/\ rpc[s] = "detect"
           /\ call_states'[s].current_language # call_states[s].current_language)
             => /\ rpc'[s] = "confirm_tts"
                /\ turn'[s].reply = "none"
                /\ conversation_history'[s] = conversation_history[s]]_vars

\* C29: silence_warnings stays within 0..2, and a wake-up of the watchdog
\* that finds no user speech during its 30 s sleep either starts the prompt
\* (when silence_warnings < 2) or starts Ending (otherwise): it never goes
\* back to sleep without doing one of the two.
C29_TickPromptsOrEnds ==
    [][\A s \in Sessions :
          /\ call_states'[s].silence_warnings \in 0..2
          /\ (/\ wpc[s] = "sleep"
              /\ ticks'[s] = ticks[s] + 1
              /\ ~recent_speech[s]
              /\ ~call_states[s].call_ended)
                => IF call_states[s].silence_warnings < 2
                   THEN /\ wpc'[s] = "warn_tts"
                        /\ ~call_states'[s].call_ended
                   ELSE /\ wpc'[s] = "end_tts"
                        /\ call_states'[s].call_ended
                        /\ last_sent' = last_sent]_vars

\* ---------------------------------------------------------------- fairness
\* The event loop runs every task that is ready: a provider call or a sleep
\* that a task is suspended in returns, and the task runs to its next await.
\* Frames from the peer and the peer's close are not forced.
LoopStep(s) ==
    \/ StartSleepDone(s)
    \/ \E a \in TTSResults : GreetTTSDone(s, a)
    \/ \E r \in STTResults : STTDone(s, r)
    \/ \E a \in TTSResults : ConfirmTTSDone(s, a)
    \/ \E d \in DetectResults, o \in LLMOutcomes : DetectDone(s, d, o)
    \/ \E a \in TTSResults : TTSDone(s, a)
    \/ Disconnect(s)

WatchdogStep(s) ==
    \/ \E late \in BOOLEAN : Tick(s, late)
    \/ \E a \in TTSResults : WarnTTSDone(s, a)
    \/ \E a \in TTSResults, closes \in BOOLEAN : EndTTSDone(s, a, closes)
    \/ \E closes \in BOOLEAN : EndGraceDone(s, closes)

SpecFair ==
    /\ Init
    /\ [][Next]_vars
    /\ \A s \in Sessions : WF_vars(LoopStep(s)) /\ WF_vars(WatchdogStep(s))

\* C30: the audio buffer of a session whose watchdog is running does not
\* stay non-empty for ever: the watchdog forces a drain of what the
\* accumulation gate holds back, so the buffer is eventually empty again.
C30_BufferEventuallyDrained ==
    \A s \in Sessions :
        (audio_buffers[s] # <<>> /\ wpc[s] = "sleep") ~> (audio_buffers[s] = <<>>)

\* --------------------------------------------------------- a stalled call
\* One call whose caller keeps sending 3 s audio frames on an open socket,
\* the turns following each other within the watchdog's 30 s sleep.
MaxFramesStalled == 22
InitStalled == InitWith(1, MaxFramesStalled) /\ probe = NoProbe

NextStalled ==
    \/ \E s \in Sessions : Connect(s)
    \/ \E s \in Sessions, len \in {l \in ChunkLens : l % 2 = 0}, vad \in VADResults :
            RecvAudio(s, len, vad)
    \/ \E s \in Sessions, r \in STTResults : STTDone(s, r)
    \/ \E s \in Sessions, a \in TTSResults : ConfirmTTSDone(s, a)
    \/ \E s \in Sessions, d \in DetectResults, o \in LLMOutcomes : DetectDone(s, d, o)
    \/ \E s \in Sessions, a \in TTSResults : TTSDone(s, a)

SpecStalled == InitStalled /\ [][NextStalled]_vars

\* C31: the audio a session's buffer holds never exceeds 60 s (60000 ms of
\* 16-bit samples at 8 kHz).
C31_BufferAtMost60s ==
    \A s \in Sessions : SumLen(audio_buffers[s]) <= 60000 * BytesPerMs

\* C32: once a start frame has written a session's stream metadata, no step
\* changes it; it only disappears when the session is destroyed.
C32_MetadataImmutable ==
    [][\A s \in Sessions :
          stream_metadata[s] # 0 => stream_metadata'[s] \in {stream_metadata[s], 0}]_vars

\* ------------------------------------------------- connection identifiers
\* Two sockets whose connection ids are what connect() makes them:
\* `stream_id or f"conn_{datetime.now().timestamp()}"`, handle_media_stream
\* passing no stream_id.  The handler's dictionaries are indexed by the id,
\* the tasks and sockets by the socket.  The callers are silent
\* (vad_processor.has_speech answers no), so a frame is handled without a
\* suspension.
MaxFramesClock == 3
ClockReadings == Sessions
InitClock == InitWith(2, MaxFramesClock) /\ probe = NoProbe

\* connect() on socket k when the clock reads `now`, which is not before any
\* earlier reading
ConnectAt(k, now) ==
    /\ rpc[k] = "idle"
    /\ slots > 0
    /\ \A j \in Sessions : j < k => rpc[j] # "idle"
    /\ \A j \in Sessions : connection_id[j] <= now
    /\ slots' = slots - 1
    /\ connection_id' = [connection_id EXCEPT ![k] = now]
    /\ active_connections' = active_connections \cup {now}
    /\ conversation_history' = [conversation_history EXCEPT ![now] = <<>>]
    /\ audio_buffers' = [audio_buffers EXCEPT ![now] = <<>>]
    /\ call_states' = [call_states EXCEPT ![now] = NewCallState]
    /\ ws' = [ws EXCEPT ![k] = "open"]
    /\ rpc' = [rpc EXCEPT ![k] = "recv"]
    /\ inbound' = NoInbound
    /\ UNCHANGED <<call_history, http, probe, chunk_counter, stream_metadata,
                   silence_timers, wpc, ticks, wlocal, turn, drained, last_sent,
                   recent_speech, frames_left>>

\* handle_incoming_message, type "audio", on socket k: _handle_audio_message
\* and, past the gate, _process_accumulated_audio up to the return that
\* follows a vad_processor.has_speech answer of no speech (the finally
\* resets is_processing).  When the call state of the id is gone the append
\* is skipped and the KeyError of the gate's sum is logged.
SilentAudio(k, len) ==
    /\ CanReceive(k)
    /\ Consume(k, "audio")
    /\ LET c == connection_id[k]
           buffered == Append(audio_buffers[c], [id |-> FrameId, len |-> len])
       IN  IF c \notin active_connections \/ call_states[c].call_ended
           THEN UNCHANGED <<audio_buffers, drained>>
           ELSE IF /\ call_states[c].waiting_for_user
                   /\ ~call_states[c].is_processing
                   /\ AccumulatedEnough(buffered)
                THEN /\ audio_buffers' =
                            [audio_buffers EXCEPT ![c] = ClearedBuffer(buffered)]
                     /\ drained' = [drained EXCEPT ![k] =
                            [audio_chunks |-> buffered,
                             combined_audio |-> CombineAudioChunks(buffered)]]
                ELSE /\ audio_buffers' = [audio_buffers EXCEPT ![c] = buffered]
                     /\ UNCHANGED drained
    /\ UNCHANGED <<connection_id, call_history, http, probe, chunk_counter,
                   active_connections, call_states, conversation_history,
                   stream_metadata, silence_timers, rpc, wpc, ticks, wlocal,
                   turn, ws, last_sent, recent_speech>>

\* handle_media_stream on socket k: receive_text raises on the closed socket
\* and the finally calls disconnect(connection_id)
DisconnectAt(k) ==
    /\ rpc[k] = "recv"
    /\ ws[k] \in {"peer_closed", "server_closed"}
    /\ LET c == connection_id[k]
       IN  /\ active_connections' = active_connections \ {c}
           /\ conversation_history' = [conversation_history EXCEPT ![c] = <<>>]
           /\ stream_metadata' = [stream_metadata EXCEPT ![c] = 0]
           /\ call_states' = [call_states EXCEPT ![c] = NewCallState]
           /\ audio_buffers' = [audio_buffers EXCEPT ![c] = <<>>]
           /\ IF c \in silence_timers
              THEN /\ silence_timers' = silence_timers \ {c}
                   /\ wpc' = [wpc EXCEPT ![c] = Cancelled(wpc[c])]
              ELSE UNCHANGED <<silence_timers, wpc>>
    /\ rpc' = [rpc EXCEPT ![k] = "closed"]
    /\ drained' = [drained EXCEPT ![k] = NoDrain]
    /\ inbound' = NoInbound
    /\ UNCHANGED <<connection_id, call_history, http, probe, chunk_counter, ws,
                   last_sent, frames_left, slots, turn, ticks, wlocal,
                   recent_speech>>

NextClock ==
    \/ \E k \in Sessions, now \in ClockReadings : ConnectAt(k, now)
    \/ \E k \in Sessions, len \in ChunkLens : SilentAudio(k, len)
    \/ \E k \in Sessions, type \in IgnoredFrames : RecvIgnored(k, type)
    \/ \E k \in Sessions : PeerClose(k)
    \/ \E k \in Sessions : DisconnectAt(k)

SpecClock == InitClock /\ [][NextClock]_vars

\* C33: session ownership.  A step in which a live session does nothing
\* itself (its receive loop stays at receive_text, no frame of it is handled,
\* its watchdog and its socket do not move) leaves that session's call
\* state, audio buffer, conversation history and stream metadata unchanged.
C33_SessionOwnership ==
    [][\A j \in Sessions :
          LET c == connection_id[j]
          IN  (/\ rpc[j] = "recv" /\ rpc'[j] = "recv"
               /\ wpc'[j] = wpc[j] /\ ws'[j] = ws[j]
               /\ ~(frames_left' # frames_left /\ inbound'.session = j))
                  => /\ call_states'[c] = call_states[c]
                     /\ audio_buffers'[c] = audio_buffers[c]
                     /\ conversation_history'[c] = conversation_history[c]
                     /\ stream_metadata'[c] = stream_metadata[c]]_vars

\* C34: silence_warnings counts the silence prompts sent since the most
\* recent meaningful utterance: the utterance puts it at 0 and one prompt
\* raises it by one, so no step raises it by more than one (a count read
\* before the utterance is not written back after it).
C34_NoStaleSilenceCount ==
    [][\A s \in Sessions :
          call_states'[s].silence_warnings <= call_states[s].silence_warnings + 1]_vars

\* C35: no silence watchdog sleeps or prompts for a session whose call has
\* ended (the watchdog that ended the call only finishes the ending), and
\* none is alive for a connection that has been torn down.
C35_NoWatchdogAfterEnd ==
    \A s \in Sessions :
        /\ call_states[s].call_ended => wpc[s] \notin {"sleep", "warn_tts"}
        /\ rpc[s] = "closed" => wpc[s] \in {"none", "done"}

\* C36: is_processing is true only inside a running turn, and every way out
\* of turn processing leaves it false: a step that takes the receive loop
\* out of the turn's provider calls, and a step whose drain ends without a
\* provider call (no speech), ends with is_processing false.
C36_ProcessingReleased ==
    [][\A s \in Sessions :
          LET stages == {"stt", "detect", "confirm_tts", "tts"}
          IN  /\ call_states'[s].is_processing => rpc'[s] \in stages
              /\ ((rpc[s] \in stages /\ rpc'[s] \notin stages)
                    \/ (drained'[s] # drained[s] /\ rpc'[s] \notin stages))
                    => ~call_states'[s].is_processing]_vars

\* a turn left through the language switch (its confirmation was the last
\* frame sent) with the receive loop back at receive_text
C36_Witness ==
    \E s \in Sessions :
        /\ rpc[s] = "recv"
        /\ drained[s] # NoDrain
        /\ last_sent[s].kind = "confirm"
        /\ ~call_states[s].is_processing

\* C37: while a session's status is still 'connected' (no start frame has
\* been handled) no turn is in progress for it, its conversation history is
\* empty and no audio frame has been sent to it.
C37_NoTurnBeforeStart ==
    \A s \in Sessions :
        (s \in active_connections /\ call_states[s].status = "connected")
            => /\ rpc[s] \notin {"stt", "detect", "confirm_tts", "tts"}
               /\ conversation_history[s] = <<>>
               /\ last_sent[s] = NoFrameSent

\* C38: call_ended is true exactly when status is 'ended'; as long as the
\* session exists status never moves backwards along connected, active,
\* ended and call_ended is never reset, whatever frame arrives.
C38_EndedIsFinal ==
    [][\A s \in Sessions :
          LET Rank(status) == CASE status = "connected" -> 0
                                [] status = "active" -> 1
                                [] status = "ended" -> 2
              old == call_states[s]
              new == call_states'[s]
          IN  /\ old.call_ended <=> old.status = "ended"
              /\ new.call_ended <=> new.status = "ended"
              /\ rpc'[s] # "closed"
                    => /\ Rank(new.status) >= Rank(old.status)
                       /\ old.call_ended => new.call_ended]_vars

\* a start frame handled after the call has ended
C38_Witness ==
    \E s \in Sessions :
        /\ inbound = [session |-> s, type |-> "start"]
        /\ call_states[s].call_ended
        /\ call_states[s].status = "ended"

\* C39: a session is sent at most one greeting, and none once its call has
\* ended: a greeting frame goes out only from the greeting's text_to_speech,
\* which is entered only with greeting_sent false and sets it for as long as
\* the session exists, and only while call_ended is false.
C39_OneGreeting ==
    [][\A s \in Sessions :
          /\ (last_sent'[s] # last_sent[s] /\ last_sent'[s].kind = "greeting")
                => /\ rpc[s] = "greet_tts"
                   /\ ~call_states[s].call_ended
          /\ (rpc'[s] = "greet_tts" /\ rpc[s] # "greet_tts")
                => /\ ~call_states[s].greeting_sent
                   /\ call_states'[s].greeting_sent
          /\ (call_states[s].greeting_sent /\ rpc'[s] # "closed")
                => call_states'[s].greeting_sent]_vars

\* C40: a frame handled for a session whose call_ended is true changes
\* neither its audio buffer, conversation history, call state nor stream
\* metadata, and leaves the receive loop at receive_text (no turn starts).
C40_EndedIgnoresFrames ==
    [][\A s \in Sessions :
          (/\ call_states[s].call_ended
           /\ frames_left' # frames_left
           /\ inbound'.session = s)
              => /\ audio_buffers'[s] = audio_buffers[s]
                 /\ conversation_history'[s] = conversation_history[s]
                 /\ call_states'[s] = call_states[s]
                 /\ stream_metadata'[s] = stream_metadata[s]
                 /\ rpc[s] = "recv" /\ rpc'[s] = "recv"
                 /\ drained'[s] = drained[s]]_vars

\* an audio frame handled after the call has ended
C40_Witness ==
    \E s \in Sessions :
        /\ inbound = [session |-> s, type |-> "audio"]
        /\ call_states[s].call_ended
        /\ ws[s] = "open"

====
